---- MODULE Spec2Model ----
(***************************************************************************)
(* The multicast Delegate of InterstingDelegate.hpp: an ordered vector of  *)
(* callable pointers guarded by one mutex per Delegate.  The repository    *)
(* holds three definitions of the class; `variant` says which one runs:    *)
(*   "function" : src/InterstingDelegate.hpp lines 1-188                   *)
(*                (shared_ptr entries wrapping std::function)              *)
(*   "raw"      : src/InterstingDelegate.hpp lines 189-437                 *)
(*                (raw owning pointers, scalar result)                     *)
(*   "shared"   : src/unnamed/part_000 (shared_ptr entries, move ctor)     *)
(* Threads run the member functions one statement group at a time, so that *)
(* lock acquisition, the unlocked reads of another Delegate's vector and   *)
(* the listener calls are separate steps.                                  *)
(***************************************************************************)
EXTENDS Integers, Sequences, FiniteSets, TLC

VARIABLES variant, callable_ptrs, mtx, life, released, fr, hist, budget, final, ub

vars == <<variant, callable_ptrs, mtx, life, released, fr, hist, budget, final, ub>>

\* ------------------------------------------------------------------ bounds
\* Number of member-function calls the single caller of Spec makes.
MaxOps == 2

Variants == {"function", "raw", "shared"}
Threads == {"t1", "t2"}
Regs == {"A", "B", "C"}
NoReg == "none"
NoEntry == "null"
Free == "free"

\* The entries (wrapper objects) the constructors have allocated.
Entries == {"a", "b", "c"}

\* The invokable captured by each entry: "a" and "b" are two registrations of
\* the same function, "c" wraps another one.
FunctionOf(e) == IF e = "c" THEN "double" ELSE "addOne"

\* Arguments the listeners are invoked with.
Args == {5}

\* What an uninitialized ReturnType local may hold.
UninitValues == {0, 6}

\* ------------------------------------------------------------ pure helpers
\* Callable::Execute of a wrapper: forwards the call to the captured target.
Execute(e, x) == IF FunctionOf(e) = "addOne" THEN x + 1 ELSE 2 * x

\* callable_ptr comparison (*it == f): pointer identity.
SameFunction(p, f) == FunctionOf(p) = FunctionOf(f)
PtrEq(p, f) == p = f

\* std::vector::erase of the element at 1-based position i.
Erase(s, i) == SubSeq(s, 1, i - 1) \o SubSeq(s, i + 1, Len(s))

\* The reverse scan of operator-=(callable_ptr) as the "function" variant
\* writes it: walk from the back, erase the first match, return.
RECURSIVE ScanBack(_, _, _)
ScanBack(s, i, f) ==
    IF i = 0 THEN 0
    ELSE IF PtrEq(s[i], f) THEN i
    ELSE ScanBack(s, i - 1, f)

\* The scan as the "raw" and "shared" variants write it: the return statement
\* is not inside the if, so the loop body runs at most once and only the last
\* element is ever compared.
ScanBackOnce(s, f) ==
    IF Len(s) = 0 THEN 0
    ELSE IF PtrEq(s[Len(s)], f) THEN Len(s)
    ELSE 0

\* Index erased by operator-=(callable_ptr), 0 when nothing is erased.
EraseAlways(v, s, f) == Len(s)
EraseIndex(v, s, f) ==
    IF v = "function" THEN ScanBack(s, Len(s), f) ELSE ScanBackOnce(s, f)

RemoveOne(v, s, f) ==
    IF EraseIndex(v, s, f) = 0 THEN s ELSE Erase(s, EraseIndex(v, s, f))

\* ------------------------------------------------------------------ frames
IdleFrame ==
    [pc |-> "idle", top |-> "none", this |-> NoReg, other |-> NoReg,
     f |-> NoEntry, it |-> 0, end |-> 0, valid |-> TRUE, arg |-> 0,
     sig |-> "none", calls |-> <<>>, vec |-> <<>>, res |-> 0,
     pre |-> <<>>, quiet |-> TRUE, ub0 |-> FALSE, view |-> <<>>, outer |-> <<>>]

Idle(t) == fr[t].pc = "idle"

\* The registry whose vector a frame holds iterators into, if any: the other
\* registry during the loops of operator+=(Delegate) and operator-=(Delegate),
\* the own one during the loop of Execute.
Iterating(frame) ==
    IF frame.top \in {"merge", "rmv"} /\ frame.pc \notin {"merge_begin", "rmv_begin"}
    THEN frame.other
    ELSE IF frame.pc = "exec_call" THEN frame.this
    ELSE NoReg

\* A call frame for a member function that thread t starts now.
NewFrame(t, top, this, other, f, pc) ==
    [IdleFrame EXCEPT !.pc = pc, !.top = top, !.this = this, !.other = other,
                      !.f = f, !.pre = callable_ptrs, !.ub0 = ub,
                      !.quiet = \A u \in Threads \ {t} : Idle(u)]

\* Thread t enters a member function: every call already running is no longer
\* running alone.
Enter(t, frame) ==
    fr' = [u \in Threads |->
             IF u = t THEN frame
             ELSE IF Idle(u) THEN fr[u]
             ELSE [fr[u] EXCEPT !.quiet = FALSE]]

\* What a call hands back: the "raw" variant declares ReturnType Execute(...),
\* the other two std::vector<ReturnType> Execute(...).
ReturnKind(frame) ==
    IF frame.top \notin {"Execute", "operator()"} THEN "none"
    ELSE IF frame.sig = "void" THEN "void"
    ELSE IF variant = "raw" THEN "scalar"
    ELSE "vector"

\* The record kept of a finished call: the vectors and locks before and after
\* it, the listeners it called and what it returned.
Record(t, frame, post, locks, undefined) ==
    [top |-> frame.top, thread |-> t, this |-> frame.this, other |-> frame.other,
     f |-> frame.f, arg |-> frame.arg, sig |-> frame.sig, pre |-> frame.pre,
     post |-> post, locks |-> locks, quiet |-> frame.quiet, calls |-> frame.calls,
     returns |-> ReturnKind(frame), vec |-> frame.vec, res |-> frame.res,
     ub0 |-> frame.ub0, ub |-> undefined, view |-> frame.view]

Remember(rec) == hist' = Append(hist, rec)

\* Where a member function returns to: its caller outside the class, or the
\* listener that called it from inside the loop of Execute.
Return(frame) == IF frame.outer = <<>> THEN IdleFrame ELSE frame.outer[1]

\* std::lock_guard<std::mutex> lock(mtx): the constructor blocks until the
\* mutex is free and then owns it; the destructor unlocks.
AlwaysAvailable(r) == TRUE
Available(r) == mtx[r] = Free
NoLock(m, r, t) == m
Lock(m, r, t) == [m EXCEPT ![r] = t]
KeepLocked(m, r) == m
Unlock(m, r) == [m EXCEPT ![r] = Free]

\* Iterators into registry r's vector at or after position from are
\* invalidated (a reallocating push_back or a clear invalidates all of them).
Invalidate(frames, r, from) ==
    [u \in Threads |->
       IF Iterating(frames[u]) = r /\ frames[u].it >= from
       THEN [frames[u] EXCEPT !.valid = FALSE]
       ELSE frames[u]]

\* A crash (one outcome of undefined behaviour) ends the process, and so does
\* std::terminate, which runs when an exception leaves a noexcept function.
Running == \A u \in Threads : fr[u].pc \notin {"crashed", "terminated"}
At(t, pc) == Running /\ fr[t].pc = pc

\* A thread may enter a member function while it has calls left; the threads
\* are interchangeable, so they make their first call in a fixed order.
CanStart(t) ==
    /\ Running
    /\ Idle(t)
    /\ budget[t] > 0
    /\ t = "t2" => (~Idle("t1") \/ hist # <<>>)

\* The threads that may enter a member function in the current state.
Starters == {t \in Threads : CanStart(t)}

\* -------------------------------------------------------------------- Init
\* The state after the constructors and the set-up code ran: registries A and
\* B are live and hold what earlier += calls put into them, registry C is not
\* constructed yet (a move construction makes it).
FreshPrologue == [A |-> <<>>, B |-> <<"b">>, C |-> <<>>]
SeededPrologue == [A |-> <<"a">>, B |-> <<"b">>, C |-> <<>>]
Prologues ==
    { FreshPrologue,
      SeededPrologue,
      [A |-> <<"a", "c">>, B |-> <<"b", "c">>, C |-> <<>>] }

InitObjects ==
    /\ variant \in Variants
    /\ life = [r \in Regs |-> IF r = "C" THEN "unborn" ELSE "live"]
    /\ mtx = [r \in Regs |-> Free]
    /\ released = [e \in Entries |-> 0]
    /\ fr = [t \in Threads |-> IdleFrame]
    /\ hist = <<>>
    /\ ub = FALSE

\* One caller making MaxOps calls one after the other.
Init ==
    /\ InitObjects
    /\ callable_ptrs \in Prologues
    /\ budget = [t \in Threads |-> IF t = "t1" THEN MaxOps ELSE 0]
    /\ final = FALSE

\* Two threads making one call each.
InitThreads ==
    /\ InitObjects
    /\ callable_ptrs \in Prologues
    /\ budget = [t \in Threads |-> 1]
    /\ final = FALSE

\* Two threads making one call each on registries that were just constructed,
\* and the main thread invoking once after both have finished.
InitAdders ==
    /\ InitObjects
    /\ callable_ptrs = FreshPrologue
    /\ budget = [t \in Threads |-> 1]
    /\ final = TRUE

\* Two threads making one call each on two registries seeded with one entry
\* each (Delegate(func)).
InitSeeded ==
    /\ InitObjects
    /\ callable_ptrs = SeededPrologue
    /\ budget = [t \in Threads |-> 1]
    /\ final = FALSE

\* ------------------------------------- operator+=(callable_ptr) (private)
StartAdd(t, r, f) ==
    /\ CanStart(t)
    /\ life[r] = "live"
    /\ Enter(t, NewFrame(t, "add", r, NoReg, f, "add_lock"))
    /\ budget' = [budget EXCEPT ![t] = @ - 1]
    /\ UNCHANGED <<variant, callable_ptrs, mtx, life, released, hist, final, ub>>

\* std::lock_guard<std::mutex> lock(mtx);
AddLock(t) ==
    /\ At(t, "add_lock")
    /\ Available(fr[t].this)
    /\ mtx' = Lock(mtx, fr[t].this, t)
    /\ fr' = [fr EXCEPT ![t].pc = "add_push"]
    /\ UNCHANGED <<variant, callable_ptrs, life, released, hist, budget, final, ub>>

\* Dereferencing the frame's iterator into registry r's vector.  An iterator
\* that is valid and in range yields the element.  Anything else is undefined
\* behaviour: a stale iterator that is still in range usually finds the element
\* that is there now, one past the end finds whatever the slot holds, and
\* either may fault (NoEntry stands for the read that ends the process).
DerefUB(frame, r) == ~(frame.valid /\ frame.it <= Len(callable_ptrs[r]))
Deref(frame, r) ==
    IF frame.it > Len(callable_ptrs[r]) THEN Entries \cup {NoEntry}
    ELSE IF ~frame.valid THEN {callable_ptrs[r][frame.it], NoEntry}
    ELSE {callable_ptrs[r][frame.it]}

Crash(t) == fr' = [fr EXCEPT ![t].pc = "crashed"]

\* An exception reaches the edge of a noexcept member function: std::terminate.
Terminate(t) == fr' = [fr EXCEPT ![t].pc = "terminated"]

\* In the "function" variant the loops bind `const auto& f`, a reference into
\* the other registry's vector that is read when the private operator uses it;
\* the other variants copy the pointer in the loop header.
ByReference(frame) == variant = "function" /\ frame.top \in {"merge", "rmv"}
Operand(frame) == IF ByReference(frame) THEN Deref(frame, frame.other) ELSE {frame.f}
OperandUB(frame) == ByReference(frame) /\ DerefUB(frame, frame.other)

\* callable_ptrs.push_back(f)
PushFront(s, f) == <<f>> \o s
PushBack(s, f) == Append(s, f)

\* A push_back may reallocate; it matters only while someone holds iterators.
MayReallocate(r) ==
    IF \E u \in Threads : Iterating(fr[u]) = r THEN BOOLEAN ELSE {FALSE}

\* callable_ptrs.push_back(f); return *this;   (the lock_guard unlocks)
AddPush(t) ==
    LET me == fr[t]
        r == me.this
    IN  /\ At(t, "add_push")
        /\ ub' = (ub \/ OperandUB(me))
        /\ \E f \in Operand(me), realloc \in MayReallocate(r) :
             IF f = NoEntry
             THEN /\ Crash(t)
                  /\ UNCHANGED <<callable_ptrs, mtx, hist>>
             ELSE /\ callable_ptrs' = [callable_ptrs EXCEPT ![r] = PushBack(@, f)]
                  /\ mtx' = Unlock(mtx, r)
                  /\ LET after == IF me.top = "merge"
                                  THEN [me EXCEPT !.pc = "merge_loop", !.it = @ + 1, !.f = f]
                                  ELSE Return(me)
                         frames == [fr EXCEPT ![t] = after]
                     IN  fr' = IF realloc THEN Invalidate(frames, r, 0) ELSE frames
                  /\ IF me.top = "add"
                     THEN Remember(Record(t, me, callable_ptrs', mtx', ub'))
                     ELSE UNCHANGED hist
        /\ UNCHANGED <<variant, life, released, budget, final>>

\* ------------------------------------- operator-=(callable_ptr) (private)
StartRemove(t, r, f) ==
    /\ CanStart(t)
    /\ life[r] = "live"
    /\ Enter(t, NewFrame(t, "remove", r, NoReg, f, "rem_lock"))
    /\ budget' = [budget EXCEPT ![t] = @ - 1]
    /\ UNCHANGED <<variant, callable_ptrs, mtx, life, released, hist, final, ub>>

RemoveLock(t) ==
    /\ At(t, "rem_lock")
    /\ Available(fr[t].this)
    /\ mtx' = Lock(mtx, fr[t].this, t)
    /\ fr' = [fr EXCEPT ![t].pc = "rem_scan"]
    /\ UNCHANGED <<variant, callable_ptrs, life, released, hist, budget, final, ub>>

\* The reverse loop, the erase and the return (the lock_guard unlocks).
RemoveScan(t) ==
    LET me == fr[t]
        r == me.this
    IN  /\ At(t, "rem_scan")
        /\ ub' = (ub \/ OperandUB(me))
        /\ \E f \in Operand(me) :
             IF f = NoEntry
             THEN /\ Crash(t)
                  /\ UNCHANGED <<callable_ptrs, mtx, hist>>
             ELSE LET idx == EraseIndex(variant, callable_ptrs[r], f)
                      after == IF me.top = "rmv"
                               THEN [me EXCEPT !.pc = "rmv_loop", !.it = @ + 1, !.f = f]
                               ELSE Return(me)
                      frames == [fr EXCEPT ![t] = after]
                  IN  /\ callable_ptrs' = [callable_ptrs EXCEPT ![r] = RemoveOne(variant, @, f)]
                      /\ mtx' = Unlock(mtx, r)
                      /\ fr' = IF idx = 0 THEN frames ELSE Invalidate(frames, r, idx)
                      /\ IF me.top = "remove"
                         THEN Remember(Record(t, me, callable_ptrs', mtx', ub'))
                         ELSE UNCHANGED hist
        /\ UNCHANGED <<variant, life, released, budget, final>>

\* ------------------------------------------- operator+=(const Delegate&)
StartMerge(t, r, o) ==
    /\ CanStart(t)
    /\ life[r] = "live" /\ life[o] = "live"
    /\ Enter(t, NewFrame(t, "merge", r, o, NoEntry, "merge_begin"))
    /\ budget' = [budget EXCEPT ![t] = @ - 1]
    /\ UNCHANGED <<variant, callable_ptrs, mtx, life, released, hist, final, ub>>

\* The range-for evaluates function.GetCallablePtrs() and caches begin/end.
MergeBegin(t) ==
    /\ At(t, "merge_begin")
    /\ fr' = [fr EXCEPT ![t].pc = "merge_loop", ![t].it = 1,
                        ![t].end = Len(callable_ptrs[fr[t].other])]
    /\ UNCHANGED <<variant, callable_ptrs, mtx, life, released, hist, budget, final, ub>>

\* Loop test and loop header: leave at the cached end, else bind f and call
\* *this += f.
MergeLoop(t) ==
    LET me == fr[t]
    IN  /\ At(t, "merge_loop")
        /\ IF me.it > me.end
           THEN /\ fr' = [fr EXCEPT ![t] = IdleFrame]
                /\ Remember(Record(t, me, callable_ptrs, mtx, ub))
                /\ UNCHANGED ub
           ELSE IF ByReference(me)
           THEN /\ fr' = [fr EXCEPT ![t].pc = "add_lock"]
                /\ UNCHANGED <<hist, ub>>
           ELSE /\ \E f \in Deref(me, me.other) :
                     IF f = NoEntry THEN Crash(t)
                     ELSE fr' = [fr EXCEPT ![t].pc = "add_lock", ![t].f = f]
                /\ ub' = (ub \/ DerefUB(me, me.other))
                /\ UNCHANGED hist
        /\ UNCHANGED <<variant, callable_ptrs, mtx, life, released, budget, final>>

\* ------------------------------------------- operator-=(const Delegate&)
StartRmv(t, r, o) ==
    /\ CanStart(t)
    /\ life[r] = "live" /\ life[o] = "live"
    /\ Enter(t, NewFrame(t, "rmv", r, o, NoEntry, "rmv_begin"))
    /\ budget' = [budget EXCEPT ![t] = @ - 1]
    /\ UNCHANGED <<variant, callable_ptrs, mtx, life, released, hist, final, ub>>

RmvBegin(t) ==
    /\ At(t, "rmv_begin")
    /\ fr' = [fr EXCEPT ![t].pc = "rmv_loop", ![t].it = 1,
                        ![t].end = Len(callable_ptrs[fr[t].other])]
    /\ UNCHANGED <<variant, callable_ptrs, mtx, life, released, hist, budget, final, ub>>

\* The "function" variant is a range-for (end cached); the other two test
\* it < function.GetCallablePtrs().end() afresh on every round.
RmvMore(frame) ==
    IF variant = "function" THEN frame.it <= frame.end
    ELSE frame.it <= Len(callable_ptrs[frame.other])

RmvLoop(t) ==
    LET me == fr[t]
    IN  /\ At(t, "rmv_loop")
        /\ IF ~RmvMore(me)
           THEN /\ fr' = [fr EXCEPT ![t] = IdleFrame]
                /\ Remember(Record(t, me, callable_ptrs, mtx, ub))
                /\ UNCHANGED ub
           ELSE IF ByReference(me)
           THEN /\ fr' = [fr EXCEPT ![t].pc = "rem_lock"]
                /\ UNCHANGED <<hist, ub>>
           ELSE /\ \E f \in Deref(me, me.other) :
                     IF f = NoEntry THEN Crash(t)
                     ELSE fr' = [fr EXCEPT ![t].pc = "rem_lock", ![t].f = f]
                /\ ub' = (ub \/ DerefUB(me, me.other))
                /\ UNCHANGED hist
        /\ UNCHANGED <<variant, callable_ptrs, mtx, life, released, budget, final>>

\* ------------------------------------------------ Execute / operator()
\* sig is the specialization the call belongs to ("value": ReturnType(Args...),
\* "void": void(Args...)); top is the member function entered.
StartExecute(t, r, top, sig, x) ==
    /\ CanStart(t)
    /\ life[r] = "live"
    /\ Enter(t, [NewFrame(t, top, r, NoReg, NoEntry, "exec_lock")
                   EXCEPT !.sig = sig, !.arg = x])
    /\ budget' = [budget EXCEPT ![t] = @ - 1]
    /\ UNCHANGED <<variant, callable_ptrs, mtx, life, released, hist, final, ub>>

\* The invoke the main thread makes once every thread has finished its calls.
Joined == \A u \in Threads : Idle(u) /\ budget[u] = 0

FinalExecute(t, r, top, sig, x) ==
    /\ Running /\ final /\ Joined /\ t = "t1"
    /\ life[r] = "live"
    /\ Enter(t, [NewFrame(t, top, r, NoReg, NoEntry, "exec_lock")
                   EXCEPT !.sig = sig, !.arg = x])
    /\ final' = FALSE
    /\ UNCHANGED <<variant, callable_ptrs, mtx, life, released, hist, budget, ub>>

\* The scalar `ReturnType res;` of the "raw" variant is declared without an
\* initializer; the other variants start from an empty results vector.
ScalarResult(frame) == variant = "raw" /\ frame.sig = "value"
InitialRes(frame) == IF ScalarResult(frame) THEN UninitValues ELSE {0}

\* std::lock_guard<std::mutex> lock(mtx); then the result local and the
\* range-for's begin/end.
ExecuteLock(t) ==
    /\ At(t, "exec_lock")
    /\ Available(fr[t].this)
    /\ mtx' = Lock(mtx, fr[t].this, t)
    /\ \E r0 \in InitialRes(fr[t]) :
         fr' = [fr EXCEPT ![t].pc = "exec_call", ![t].it = 1, ![t].res = r0,
                          ![t].end = Len(callable_ptrs[fr[t].this]),
                          ![t].view = callable_ptrs[fr[t].this]]
    /\ UNCHANGED <<variant, callable_ptrs, life, released, hist, budget, final, ub>>

\* What one round of the loop does with the value a listener returned.
Collect(frame, v) ==
    IF frame.sig = "void" THEN frame
    ELSE IF variant = "raw" THEN [frame EXCEPT !.res = v]
    ELSE [frame EXCEPT !.vec = Append(@, v)]

\* The order in which the loop visits positions 1..n: front to back.
VisitBackwards(k, n) == n + 1 - k
Visit(k, n) == k

\* What f->Execute(args...) hands back: the target's result, or anything when
\* the entry was deleted before (use after free).
Returned(e, x) ==
    IF released[e] > 0 THEN UninitValues \cup {Execute(e, x)} ELSE {Execute(e, x)}

\* One round of the loop: f->Execute(args...) on the next entry.  A call
\* through a deleted entry may also end the process.  The listener is the
\* caller's code and may throw instead of returning; Execute and operator()
\* are declared noexcept in every variant and hold no try block.
ExecuteCall(t) ==
    LET me == fr[t]
        at == [me EXCEPT !.it = Visit(me.it, me.end)]
    IN  /\ At(t, "exec_call")
        /\ me.it <= me.end
        /\ \E e \in Deref(at, me.this) :
             IF e = NoEntry
             THEN Crash(t) /\ ub' = TRUE
             ELSE /\ \/ \E v \in Returned(e, me.arg) :
                          fr' = [fr EXCEPT ![t] =
                                   [Collect(me, v) EXCEPT !.it = @ + 1, !.calls = Append(@, e)]]
                     \/ released[e] > 0 /\ Crash(t)
                     \/ Terminate(t)
                  /\ ub' = (ub \/ DerefUB(at, me.this) \/ released[e] > 0)
        /\ UNCHANGED <<variant, callable_ptrs, mtx, life, released, hist, budget, final>>

\* return results; / return res; / end of the void body (the lock_guard unlocks)
ExecuteReturn(t) ==
    LET me == fr[t]
    IN  /\ At(t, "exec_call")
        /\ me.it > me.end
        /\ mtx' = Unlock(mtx, me.this)
        /\ fr' = [fr EXCEPT ![t] = Return(me)]
        /\ Remember(Record(t, me, callable_ptrs, mtx', ub))
        /\ UNCHANGED <<variant, callable_ptrs, life, released, budget, final, ub>>

\* ------------------------------------------- Delegate(const Delegate&&)
\* Only the "raw" and "shared" variants declare it.
StartMove(t, dst, src) ==
    /\ CanStart(t)
    /\ variant \in {"raw", "shared"}
    /\ life[dst] = "unborn" /\ life[src] = "live"
    /\ life' = [life EXCEPT ![dst] = "constructing"]
    /\ Enter(t, NewFrame(t, "move", dst, src, NoEntry, "move_copy"))
    /\ budget' = [budget EXCEPT ![t] = @ - 1]
    /\ UNCHANGED <<variant, callable_ptrs, mtx, released, hist, final, ub>>

\* : callable_ptrs(_other.GetCallablePtrs())
CopyNothing(s) == <<>>
CopyVector(s) == s

MoveCopy(t) ==
    /\ At(t, "move_copy")
    /\ callable_ptrs' = [callable_ptrs EXCEPT
                           ![fr[t].this] = CopyVector(callable_ptrs[fr[t].other])]
    /\ fr' = [fr EXCEPT ![t].pc = "move_clear"]
    /\ UNCHANGED <<variant, mtx, life, released, hist, budget, final, ub>>

\* _other.ClearCallablePtrs();
KeepCallablePtrs(s) == s
ClearCallablePtrs(s) == <<>>

MoveClear(t) ==
    LET me == fr[t]
    IN  /\ At(t, "move_clear")
        /\ callable_ptrs' = [callable_ptrs EXCEPT
                               ![me.other] = ClearCallablePtrs(callable_ptrs[me.other])]
        /\ life' = [life EXCEPT ![me.this] = "live"]
        /\ fr' = Invalidate([fr EXCEPT ![t] = IdleFrame], me.other, 0)
        /\ Remember(Record(t, me, callable_ptrs', mtx, ub))
        /\ UNCHANGED <<variant, mtx, released, budget, final, ub>>

\* ------------------------------------------------------------- ~Delegate
\* A registry is destroyed only when no call on it or reading it is running.
InUse(r) == \E u \in Threads : fr[u].this = r \/ fr[u].other = r

\* The "raw" destructor deletes every pointer it holds; the shared_ptr
\* variants only drop their references.
Deleted(r) ==
    IF variant = "raw" THEN {callable_ptrs[r][i] : i \in DOMAIN callable_ptrs[r]} ELSE {}

Destroy(t, r) ==
    /\ CanStart(t)
    /\ life[r] = "live" /\ ~InUse(r)
    /\ released' = [e \in Entries |-> IF e \in Deleted(r) THEN released[e] + 1 ELSE released[e]]
    /\ callable_ptrs' = [callable_ptrs EXCEPT ![r] = <<>>]
    /\ life' = [life EXCEPT ![r] = "dead"]
    /\ ub' = (ub \/ \E e \in Deleted(r) : released[e] > 0)
    /\ Remember(Record(t, NewFrame(t, "destroy", r, NoReg, NoEntry, "idle"),
                        callable_ptrs', mtx, ub'))
    /\ budget' = [budget EXCEPT ![t] = @ - 1]
    /\ UNCHANGED <<variant, mtx, fr, final>>

\* ----------------------------------------------------- re-entrant listeners
\* A listener is the caller's code and may call back into the Delegate that is
\* running it: hand it the entry it was registered with once more (operator+=
\* of a Delegate holding it), take that entry out (operator-=), or invoke the
\* Delegate again.  The member function it enters runs on the same thread,
\* inside the loop of Execute, which holds the lock_guard.
LockPcs == {"add_lock", "rem_lock", "exec_lock"}
Reentries == {"add", "remove", "Execute", "operator()"}

ListenerReenters(t, top) ==
    LET me == fr[t]
        e == callable_ptrs[me.this][me.it]
        invoke == top \in {"Execute", "operator()"}
        pc == IF top = "add" THEN "add_lock"
              ELSE IF top = "remove" THEN "rem_lock"
              ELSE "exec_lock"
    IN  /\ At(t, "exec_call") /\ me.outer = <<>>
        /\ me.valid /\ me.it <= me.end /\ me.it <= Len(callable_ptrs[me.this])
        /\ released[e] = 0
        /\ fr' = [fr EXCEPT ![t] =
                    [NewFrame(t, top, me.this, NoReg, IF invoke THEN NoEntry ELSE e, pc)
                       EXCEPT !.sig = IF invoke THEN me.sig ELSE "none",
                              !.arg = IF invoke THEN me.arg ELSE 0,
                              !.outer = <<me>>]]
        /\ UNCHANGED <<variant, callable_ptrs, mtx, life, released, hist, budget, final, ub>>

\* mtx.lock() by the thread that owns mtx is undefined behaviour for a
\* std::mutex: the thread blocks forever (no step), or the library detects it
\* and throws std::system_error, which leaves a noexcept member function.
Relock(t) ==
    /\ Running
    /\ fr[t].pc \in LockPcs
    /\ mtx[fr[t].this] = t
    /\ Terminate(t)
    /\ ub' = TRUE
    /\ UNCHANGED <<variant, callable_ptrs, mtx, life, released, hist, budget, final>>

\* -------------------------------------------------------------------- Next
Invokes ==
    {<<"Execute", "value">>, <<"operator()", "value">>,
     <<"Execute", "void">>, <<"operator()", "void">>}

Next ==
    \/ \E t \in Starters, r \in Regs, f \in Entries : StartAdd(t, r, f)
    \/ \E t \in Threads : AddLock(t)
    \/ \E t \in Threads : AddPush(t)
    \/ \E t \in Starters, r \in Regs, f \in Entries : StartRemove(t, r, f)
    \/ \E t \in Threads : RemoveLock(t)
    \/ \E t \in Threads : RemoveScan(t)
    \/ \E t \in Starters, r \in Regs, o \in Regs : StartMerge(t, r, o)
    \/ \E t \in Threads : MergeBegin(t)
    \/ \E t \in Threads : MergeLoop(t)
    \/ \E t \in Starters, r \in Regs, o \in Regs : StartRmv(t, r, o)
    \/ \E t \in Threads : RmvBegin(t)
    \/ \E t \in Threads : RmvLoop(t)
    \/ \E t \in Starters, r \in Regs, i \in Invokes, x \in Args :
          StartExecute(t, r, i[1], i[2], x)
    \/ \E t \in Threads : ExecuteLock(t)
    \/ \E t \in Threads : ExecuteCall(t)
    \/ \E t \in Threads : ExecuteReturn(t)
    \/ \E t \in Starters, dst \in Regs, src \in Regs : StartMove(t, dst, src)
    \/ \E t \in Threads : MoveCopy(t)
    \/ \E t \in Threads : MoveClear(t)
    \/ \E t \in Starters, r \in Regs : Destroy(t, r)

\* One caller, MaxOps calls.
Spec == Init /\ [][Next]_vars

\* Two threads, one call each, in every interleaving.
SpecThreads == InitThreads /\ [][Next]_vars

\* The threads only add (one entry, or the entries of another registry); the
\* main thread invokes once all of them have finished.
NextAdders ==
    \/ \E t \in Starters, r \in Regs, f \in Entries : StartAdd(t, r, f)
    \/ \E t \in Threads : AddLock(t)
    \/ \E t \in Threads : AddPush(t)
    \/ \E t \in Starters, r \in Regs, o \in Regs : StartMerge(t, r, o)
    \/ \E t \in Threads : MergeBegin(t)
    \/ \E t \in Threads : MergeLoop(t)
    \/ \E t \in Threads, r \in Regs, i \in Invokes, x \in Args :
          FinalExecute(t, r, i[1], i[2], x)
    \/ \E t \in Threads : ExecuteLock(t)
    \/ \E t \in Threads : ExecuteCall(t)
    \/ \E t \in Threads : ExecuteReturn(t)

SpecAdders == InitAdders /\ [][NextAdders]_vars

\* Two threads, one call each, with listeners that call back into the
\* Delegate running them.
NextReentrant ==
    \/ Next
    \/ \E t \in Threads, top \in Reentries : ListenerReenters(t, top)
    \/ \E t \in Threads : Relock(t)

SpecReentrant == InitSeeded /\ [][NextReentrant]_vars

\* The registries whose vector the next step of a frame reads or writes.
Accessing(frame) ==
    CASE frame.pc \in {"add_push", "rem_scan"} ->
           {frame.this} \cup (IF ByReference(frame) THEN {frame.other} ELSE {})
      [] frame.pc \in {"merge_begin", "rmv_begin", "move_copy", "move_clear"} ->
           {frame.other}
      [] frame.pc = "merge_loop" ->
           IF ~ByReference(frame) /\ frame.it <= frame.end THEN {frame.other} ELSE {}
      [] frame.pc = "rmv_loop" ->
           IF ByReference(frame) THEN {} ELSE {frame.other}
      [] frame.pc = "exec_call" -> {frame.this}
      [] OTHER -> {}

\* ================================================================== claims
Count(s, e) == Cardinality({i \in DOMAIN s : s[i] = e})
Has(s, e) == Count(s, e) > 0
LastIndexOf(s, e) ==
    CHOOSE i \in DOMAIN s : s[i] = e /\ \A j \in DOMAIN s : j > i => s[j] # e
DropAt(s, i) == SubSeq(s, 1, i - 1) \o SubSeq(s, i + 1, Len(s))
Others(s, e) == SelectSeq(s, LAMBDA p : p # e)
IsInvoke(h) == h.top \in {"Execute", "operator()"}
Results(s, x) == [i \in DOMAIN s |-> Execute(s[i], x)]

\* C1: a remove of an entry that occurs anywhere in the registry deletes
\* exactly its last occurrence and keeps every other entry in order.  This is
\* the claim as stated; the "raw" and "shared" variants break it.
C1_RemoveDeletesLastOccurrence ==
    \A i \in DOMAIN hist :
      LET h == hist[i] IN
        (h.top = "remove" /\ h.quiet /\ Has(h.pre[h.this], h.f))
          => h.post = [h.pre EXCEPT ![h.this] = DropAt(@, LastIndexOf(@, h.f))]

\* C2: a remove of an entry the registry does not hold changes no vector,
\* runs into no undefined behaviour and leaves the registry's lock free.
C2_RemoveAbsentIsNoOp ==
    \A i \in DOMAIN hist :
      LET h == hist[i] IN
        (h.top = "remove" /\ h.quiet /\ ~Has(h.pre[h.this], h.f))
          => /\ h.post = h.pre
             /\ h.locks[h.this] = Free
             /\ h.ub = h.ub0

C2_Witness ==
    /\ \E i \in DOMAIN hist :
         /\ hist[i].top = "remove" /\ hist[i].quiet
         /\ ~Has(hist[i].pre[hist[i].this], hist[i].f)
         /\ hist[i].pre[hist[i].this] # <<>>
         /\ hist[i].post = hist[i].pre
    /\ \E k \in DOMAIN hist :
         /\ hist[k].top = "remove" /\ hist[k].quiet
         /\ hist[k].pre[hist[k].this] = <<>>
         /\ hist[k].post = hist[k].pre

\* C3: one invoke (void or value-returning, through Execute or the call
\* operator) calls exactly the entries the registry holds, each once, in
\* insertion order; on an empty registry it calls nothing.
C3_InvokeCallsInOrder ==
    \A i \in DOMAIN hist :
      LET h == hist[i] IN
        (IsInvoke(h) /\ h.quiet) => h.calls = h.pre[h.this]

C3_Witness ==
    /\ Len(hist) = 2
    /\ hist[1].top \in {"add", "merge"} /\ hist[1].this = "A"
    /\ IsInvoke(hist[2]) /\ hist[2].this = "A" /\ hist[2].sig = "void"
    /\ Len(hist[2].calls) >= 3
    /\ hist[2].calls = hist[1].post["A"]

\* C4: a value-returning invoke returns a sequence with one element per entry,
\* the i-th being the i-th entry's result (empty for an empty registry).  This
\* is the claim as stated; the "raw" variant breaks it.
C4_InvokeReturnsAllResults ==
    \A i \in DOMAIN hist :
      LET h == hist[i] IN
        (IsInvoke(h) /\ h.sig = "value" /\ h.quiet)
          => /\ h.returns = "vector"
             /\ h.vec = Results(h.pre[h.this], h.arg)

\* C5: for distinct registries and no concurrent call, A += B leaves A equal
\* to its old vector followed by B's entries in B's order, and changes no
\* other registry.
C5_MergeAppends ==
    \A i \in DOMAIN hist :
      LET h == hist[i] IN
        (h.top = "merge" /\ h.quiet /\ h.this # h.other)
          => h.post = [h.pre EXCEPT ![h.this] = @ \o h.pre[h.other]]

C5_Witness ==
    \E i \in DOMAIN hist :
      LET h == hist[i] IN
        /\ h.top = "merge" /\ h.quiet /\ h.this # h.other
        /\ Len(h.pre[h.this]) = 2 /\ Len(h.pre[h.other]) = 2
        /\ Len(h.post[h.this]) = 4
        /\ h.post[h.other] = h.pre[h.other]

C7_MergeThenRemoveRestores ==
    \A i \in DOMAIN hist :
      (/\ i < Len(hist)
       /\ hist[i].top = "merge" /\ hist[i].quiet
       /\ hist[i + 1].top = "rmv" /\ hist[i + 1].quiet
       /\ hist[i + 1].this = hist[i].this /\ hist[i + 1].other = hist[i].other
       /\ hist[i].this # hist[i].other)
        => hist[i + 1].post = hist[i].pre

\* C8: removal compares entries, not the functions they wrap: a remove of
\* entry f (or of a registry's entries) keeps every other entry, also those
\* wrapping the same function as f, in place and in order.
C8_RemovalByIdentity ==
    \A i \in DOMAIN hist :
      LET h == hist[i] IN
        /\ (h.top = "remove" /\ h.quiet)
             => Others(h.post[h.this], h.f) = Others(h.pre[h.this], h.f)
        /\ (h.top = "rmv" /\ h.quiet /\ h.this # h.other)
             => \A e \in Entries :
                  ~Has(h.pre[h.other], e)
                    => Count(h.post[h.this], e) = Count(h.pre[h.this], e)

C8_Witness ==
    \E i \in DOMAIN hist :
      LET h == hist[i] IN
        /\ h.top = "remove" /\ h.quiet
        /\ ~Has(h.pre[h.this], h.f)
        /\ \E k \in DOMAIN h.pre[h.this] :
             /\ h.pre[h.this][k] # h.f
             /\ FunctionOf(h.pre[h.this][k]) = FunctionOf(h.f)
        /\ h.post = h.pre

\* One add of one entry to registry r: the private operator+=, or a merge
\* from another registry that holds a single entry.
IsAddTo(h, r) ==
    /\ h.this = r
    /\ \/ h.top = "add"
       \/ h.top = "merge" /\ h.other # r /\ Len(h.pre[h.other]) = 1
AddedEntry(h) == IF h.top = "add" THEN h.f ELSE h.pre[h.other][1]

\* The runs C9 is about: two threads added one distinct entry each to the
\* same, initially empty registry, and the main thread then invoked it.
TwoAddsThenInvoke ==
    /\ Len(hist) = 3
    /\ IsInvoke(hist[3]) /\ hist[3].sig = "value"
    /\ IsAddTo(hist[1], hist[3].this) /\ IsAddTo(hist[2], hist[3].this)
    /\ hist[1].thread # hist[2].thread
    /\ AddedEntry(hist[1]) # AddedEntry(hist[2])
    /\ hist[1].pre[hist[3].this] = <<>> \/ hist[2].pre[hist[3].this] = <<>>

\* C9: after N threads added one distinct entry each to an empty registry, in
\* any interleaving, one invoke returns a sequence of length N holding one
\* result per added entry.  This is the claim as stated; the scalar result of
\* the "raw" variant (C4) breaks it.
C9_ConcurrentAddsAllInvoked ==
    TwoAddsThenInvoke
      => LET h == hist[3] IN
           /\ h.returns = "vector"
           /\ Len(h.vec) = 2
           /\ {h.calls[k] : k \in DOMAIN h.calls} = {AddedEntry(hist[1]), AddedEntry(hist[2])}
           /\ h.vec = Results(h.calls, h.arg)

\* C10: whoever is about to read or write a registry's vector holds that
\* registry's lock, so no two threads touch the same vector at once.  This is
\* the claim as stated; the unlocked reads of the other registry in
\* operator+=(Delegate), operator-=(Delegate) and the move constructor break it.
C10_AccessOnlyUnderLock ==
    /\ \A t \in Threads : \A r \in Accessing(fr[t]) : mtx[r] = t
    /\ \A t \in Threads, u \in Threads :
         t # u => Accessing(fr[t]) \cap Accessing(fr[u]) = {}

\* A move construction from registry r ran, or is running: the one operation
\* on r that C11 does not list.
MovedFrom(r) ==
    \/ \E j \in DOMAIN hist : hist[j].top = "move" /\ hist[j].other = r
    \/ \E u \in Threads : fr[u].top = "move" /\ fr[u].other = r

\* C11: whatever add, remove, merge or invoke calls run concurrently on the
\* same registry, an invoke calls exactly the entries the registry held when
\* the invoke took the lock (and a returned sequence has that length), and
\* the registry's vector does not change while the invoke is in its loop.
C11_InvokeSeesStableView ==
    /\ \A i \in DOMAIN hist :
         LET h == hist[i] IN
           (IsInvoke(h) /\ ~MovedFrom(h.this))
             => /\ h.calls = h.view
                /\ h.returns = "vector" => Len(h.vec) = Len(h.view)
    /\ \A t \in Threads :
         LET me == fr[t] IN
           (me.pc = "exec_call" /\ ~MovedFrom(me.this))
             => /\ callable_ptrs[me.this] = me.view
                /\ me.calls = SubSeq(me.view, 1, me.it - 1)

\* An invoke is between two listener calls while another thread waits for the
\* registry's lock to add to it or remove from it.
C11_Witness ==
    \E t \in Threads, u \in Threads :
      /\ t # u
      /\ fr[t].pc = "exec_call" /\ Len(fr[t].view) = 2 /\ fr[t].it = 2
      /\ Len(fr[t].calls) = 1
      /\ fr[u].pc \in {"add_lock", "rem_lock"} /\ fr[u].this = fr[t].this
      /\ fr[u].top \in {"add", "remove", "merge"}

\* C12: when a listener fails during an invoke, the failure reaches the caller
\* of the invoke, which keeps running, and the registry's lock has been
\* released.  This is the claim as stated; Execute and operator() are noexcept,
\* so the failure ends the process inside the invoke instead.
C12_ListenerFailurePropagates ==
    \A t \in Threads :
      LET me == fr[t] IN
        (IsInvoke(me) /\ me.pc = "terminated")
          => /\ Running
             /\ mtx[me.this] = Free

\* The completed calls of thread t, oldest first.
CallsOf(t) == SelectSeq(hist, LAMBDA h : h.thread = t)

\* C13: when a move construction from registry B and an add to B run at the
\* same time, the added entry ends up in exactly one of the new registry and
\* B.  This is the claim as stated; the move constructor takes no lock, so an
\* entry pushed between its copy and its clear is lost.
C13_MoveKeepsConcurrentAdds ==
    \A i \in DOMAIN hist, j \in DOMAIN hist :
      LET m == hist[i]
          a == hist[j]
      IN  (/\ Len(hist) = 2 /\ \A t \in Threads : Idle(t)
           /\ m.top = "move" /\ a.top = "add" /\ a.this = m.other)
            => Count(callable_ptrs[m.this], a.f) + Count(callable_ptrs[m.other], a.f)
                 = Count(CallsOf("t1")[1].pre[m.other], a.f) + 1

\* The mutexes a thread owns, and whether it is inside a lock_guard constructor.
Held(t) == {r \in Regs : mtx[r] = t}
Waiting(t) == fr[t].pc \in LockPcs
Blocked(t) == Waiting(t) /\ mtx[fr[t].this] # Free

\* C14: a thread never owns two mutexes and never waits for one while owning
\* one; whoever keeps a thread waiting is inside a locked section of the same
\* registry and is not waiting itself, so the threads are never all blocked.
C14_NoNestedLocks ==
    /\ \A t \in Threads :
         /\ Cardinality(Held(t)) <= 1
         /\ Waiting(t) => Held(t) = {}
         /\ Held(t) # {}
              => /\ Held(t) = {fr[t].this}
                 /\ fr[t].pc \in {"add_push", "rem_scan", "exec_call", "crashed", "terminated"}
         /\ Blocked(t)
              => \E u \in Threads \ {t} :
                   /\ mtx[fr[t].this] = u
                   /\ fr[u].this = fr[t].this
                   /\ ~Waiting(u)
    /\ \E t \in Threads : ~Blocked(t)

\* A += B and B += A run at the same time, each inside its own locked section.
C14_Witness ==
    \E t \in Threads, u \in Threads :
      /\ fr[t].top = "merge" /\ fr[u].top = "merge"
      /\ fr[t].this = fr[u].other /\ fr[t].other = fr[u].this
      /\ fr[t].this # fr[t].other
      /\ fr[t].pc = "add_push" /\ fr[u].pc = "add_push"
      /\ Held(t) = {fr[t].this} /\ Held(u) = {fr[u].this}

\* A listener of thread t has called back into the Delegate that runs it.
Reentered(t) == fr[t].outer # <<>>
NeedsLock(h) == h.top \in {"add", "remove", "Execute", "operator()"}

\* C15: once a listener has called add, remove or invoke on the registry that
\* is running it, the thread never gets past that call's lock_guard (it stays
\* there, or the process ends), the registry's mutex stays owned by it, no
\* other thread enters a locked section of that registry, and no add, remove
\* or invoke on that registry completes any more.
C15_ReentryBlocksForever ==
    /\ [](\A t \in Threads :
            Reentered(t)
              => /\ fr[t].pc \in LockPcs \cup {"terminated"}
                 /\ mtx[fr[t].this] = t
                 /\ \A u \in Threads \ {t} :
                      ~(/\ fr[u].this = fr[t].this
                        /\ fr[u].pc \in {"add_push", "rem_scan", "exec_call"}))
    /\ [][\A t \in Threads :
            Reentered(t)
              => /\ fr'[t].outer = fr[t].outer
                 /\ \A i \in DOMAIN hist' :
                      (i > Len(hist) /\ hist'[i].this = fr[t].this) => ~NeedsLock(hist'[i])]_vars

\* A listener has re-entered its registry and waits at the lock_guard while the
\* other thread waits to add to, remove from or invoke the same registry.
C15_Witness ==
    \E t \in Threads, u \in Threads :
      /\ t # u
      /\ Reentered(t) /\ fr[t].pc \in LockPcs
      /\ fr[u].pc \in LockPcs /\ fr[u].this = fr[t].this /\ ~Reentered(u)

\* C16: a self-merge A += A that runs alone on a non-empty A ends, without
\* undefined behaviour, after one round per entry A held at the call, and
\* leaves A holding its old vector twice.  This is the claim as stated; the
\* push_back into the vector the range-for is walking breaks it.
C16_SelfMergeDoubles ==
    /\ \A i \in DOMAIN hist :
         LET h == hist[i] IN
           (h.top = "merge" /\ h.this = h.other /\ h.quiet /\ ~h.ub0)
             => /\ h.post = [h.pre EXCEPT ![h.this] = @ \o @]
                /\ ~h.ub
    /\ \A t \in Threads :
         LET me == fr[t] IN
           (me.top = "merge" /\ me.this = me.other /\ me.quiet /\ ~me.ub0)
             => /\ me.pc # "crashed"
                /\ ~ub
                /\ me.it <= me.end + 1

\* Number of entries of b that find an occurrence of their own in a.
Min(x, y) == IF x <= y THEN x ELSE y
RECURSIVE Matching(_, _, _)
Matching(a, b, es) ==
    IF es = {} THEN 0
    ELSE LET e == CHOOSE x \in es : TRUE
         IN  Min(Count(a, e), Count(b, e)) + Matching(a, b, es \ {e})
Distinct(s) == \A i \in DOMAIN s, j \in DOMAIN s : s[i] = s[j] => i = j

\* C17: A -= B running alone removes from A as many entries as B has entries
\* with an occurrence of their own in A and leaves B alone; A -= A on pairwise
\* distinct entries leaves A empty; neither runs into undefined behaviour.
\* This is the claim as stated.
C17_RemoveRegistry ==
    /\ \A i \in DOMAIN hist :
         LET h == hist[i] IN
           (h.top = "rmv" /\ h.quiet /\ ~h.ub0)
             => /\ ~h.ub
                /\ h.this # h.other
                     => /\ Len(h.pre[h.this]) - Len(h.post[h.this])
                           = Matching(h.pre[h.this], h.pre[h.other], Entries)
                        /\ h.post[h.other] = h.pre[h.other]
                /\ (h.this = h.other /\ Distinct(h.pre[h.this]))
                     => h.post[h.this] = <<>>
    /\ \A t \in Threads :
         (fr[t].top = "rmv" /\ fr[t].quiet /\ ~fr[t].ub0)
           => (fr[t].pc # "crashed" /\ ~ub)

\* C18: no entry is released more than once.  This is the claim as stated;
\* the destructor of the "raw" variant deletes pointers that operator+=(Delegate)
\* copied into another registry.
C18_NoDoubleRelease ==
    \A e \in Entries : released[e] <= 1

\* C19: an invoke that runs alone never calls through an entry that has been
\* released: it neither crashes nor runs into undefined behaviour.  This is
\* the claim as stated; in the "raw" variant a registry keeps the pointers a
\* destroyed registry has deleted.
C19_InvokeCallsLiveEntries ==
    /\ \A i \in DOMAIN hist :
         LET h == hist[i] IN
           (IsInvoke(h) /\ h.quiet /\ ~h.ub0) => ~h.ub
    /\ \A t \in Threads :
         LET me == fr[t] IN
           (IsInvoke(me) /\ me.quiet /\ ~me.ub0)
             => (me.pc # "crashed" /\ ~ub)

====
